---- MODULE Spec2Model ----
(***************************************************************************)
(* The AI image worker: an HTTP listener whose /run path, guarded by a     *)
(* shared secret, runs one pipeline: fetch the latest WordPress post,      *)
(* build a prompt from its title, generate an image, upload it as media    *)
(* and set it as the post's featured image.                                *)
(*                                                                         *)
(* The repository holds two builds of the same worker:                     *)
(*   "inline"  src/index.js         (base64 payload in the response)       *)
(*   "url"     src/unnamed/part_000 (URL in the response, then a download) *)
(* The build is chosen at startup and never changes. Spec is a deployment  *)
(* with WORKER_SECRET set, SpecDefault one that leaves it unset.           *)
(*                                                                         *)
(* Every await of a remote call is a point where another request's handler *)
(* can run: a call is issued by one action and its response is consumed by *)
(* the next one. The remote systems are the environment: each response is  *)
(* drawn from the set of responses the remote can produce.                 *)
(***************************************************************************)
EXTENDS Integers, Sequences, FiniteSets, TLC

\* ---------------------------------------------------------------- bounds
NumRequests == 2        \* inbound requests of one behaviour

Requests == 1..NumRequests
\* The ids of the posts the content API can answer with.
PostIds == {41, 42}

\* ------------------------------------------------------ program constants
PerPage == 1            \* per_page=1 of the latest-post query
Variants == {"inline", "url"}

\* --------------------------------------------------------- JS-like values
Undefined == [t |-> "undefined"]
Null == [t |-> "null"]
Num(n) == [t |-> "number", v |-> n]
Str(s) == [t |-> "string", v |-> s]

\* JavaScript truthiness of the values the worker tests.
Truthy(x) ==
  CASE x.t = "undefined" -> FALSE
    [] x.t = "null" -> FALSE
    [] x.t = "number" -> x.v # 0
    [] x.t = "string" -> x.v # ""
    [] OTHER -> TRUE

\* The outcome of an async function: a value, or a thrown Error's message.
Return(v) == [ok |-> TRUE, value |-> v]
Throw(m) == [ok |-> FALSE, error |-> m]

\* ------------------------------------------------------------------ config
\* const WORKER_SECRET = process.env.WORKER_SECRET || 'changeme'
WorkerSecret(env) == IF Truthy(env) THEN env ELSE Str("changeme")

\* ------------------------------------------------------------ HTTP replies
\* A remote reply: res.ok, and the body text, which parses as JSON or not. An
\* error reply carries the remote's error object.
NotOk(v) == [ok |-> FALSE, json |-> TRUE, value |-> v]
OkText == [ok |-> TRUE, json |-> FALSE]
OkJson(v) == [ok |-> TRUE, json |-> TRUE, value |-> v]

\* The titles a post of the content API can carry: no title object, a title
\* object without `rendered`, an empty rendered title, a rendered title.
NoTitle == Undefined
Titles ==
  { NoTitle,
    [t |-> "object", rendered |-> Undefined],
    [t |-> "object", rendered |-> Str("")],
    [t |-> "object", rendered |-> Str("Best Cabs in Manchester")] }

Posts == {[t |-> "object", id |-> Num(i), title |-> ti] : i \in PostIds, ti \in Titles}

Arrays(S) == UNION {[1..n -> S] : n \in 0..PerPage}
Array(s) == [t |-> "array", elems |-> s]

\* The JSON values the latest-post query can parse to: arrays of posts (the
\* page size caps their length) and the non-arrays.
PostsBodies ==
  {Array(s) : s \in Arrays(Posts)}
    \cup {[t |-> "object"], Str(""), Str("abc"), Num(7), Null}

PostsReplies == {NotOk([t |-> "object"]), OkText} \cup {OkJson(b) : b \in PostsBodies}

\* data.data of the image API's reply: missing, empty, an item without the
\* field this build reads (url / b64_json), an item with it.
ImageShapes == {"noData", "emptyData", "noField", "field"}
ImageReplies == {NotOk("noData"), OkText} \cup {OkJson(s) : s \in ImageShapes}

DownloadReplies == {[ok |-> FALSE, json |-> FALSE], [ok |-> TRUE, json |-> FALSE]}

\* The media endpoint's replies when the next free media id is n: an error,
\* unparsable text, JSON null, an object without id, the new media record.
UploadReplies(n) ==
  {NotOk([t |-> "object"]), OkText, OkJson(Null), OkJson([t |-> "object"]),
   OkJson([t |-> "object", id |-> Num(n)])}

FeaturedReplies == {NotOk([t |-> "object"]), OkText, OkJson([t |-> "object"])}

\* What a reply amounts to for the call `op`: "status" (a non-success status),
\* "text" (success, body not JSON), or by the parsed body: "empty" (no posts),
\* "notArray", "shape" (no image field), "null", "noId" (no media id), "ok".
ReplyClass(op, rp) ==
  IF ~rp.ok THEN "status"
  ELSE IF op = "downloadImage" THEN "ok"
  ELSE IF ~rp.json THEN "text"
  ELSE CASE op = "getLatestPost" ->
              IF rp.value.t # "array" THEN "notArray"
              ELSE IF rp.value.elems = << >> THEN "empty" ELSE "ok"
         [] op = "callOpenAIImage" -> IF rp.value = "field" THEN "ok" ELSE "shape"
         [] op = "uploadImageToWP" ->
              IF rp.value.t = "null" THEN "null"
              ELSE IF "id" \notin DOMAIN rp.value THEN "noId" ELSE "ok"
         [] OTHER -> "ok"

\* --------------------------------------------------------- pure functions

\* JSON.stringify of an object: members whose value is undefined are left out.
JSONstringify(obj) ==
  [k \in {k \in DOMAIN obj : obj[k].t # "undefined"} |-> obj[k]]

\* A wpApiJson without the status test.
wpApiJsonNoStatus(reply) ==
  IF ~reply.json THEN Throw("SyntaxError") ELSE Return(reply.value)

\* wpApiJson after its fetch returned `reply`: text first, then the status
\* test, then JSON.parse.
wpApiJson(reply) ==
  IF ~reply.ok THEN Throw("WP API error")
  ELSE IF ~reply.json THEN Throw("SyntaxError")
  ELSE Return(reply.value)

\* posts.length as JavaScript evaluates it.
Length(x) ==
  CASE x.t = "array" -> Num(Len(x.elems))
    [] x.t = "string" -> Num(Len(x.v))
    [] OTHER -> Undefined

\* posts[0] as JavaScript evaluates it.
First(x) ==
  CASE x.t = "array" -> IF Len(x.elems) > 0 THEN x.elems[1] ELSE Undefined
    [] x.t = "string" -> IF Len(x.v) > 0 THEN Str("a") ELSE Undefined
    [] OTHER -> Undefined

\* src/index.js: if (!posts.length) throw ...; return posts[0]
getLatestPostInline(posts) ==
  IF posts.t \in {"null", "undefined"} THEN Throw("TypeError")
  ELSE IF ~Truthy(Length(posts)) THEN Throw("No posts found")
  ELSE Return(First(posts))

\* part_000: if (!Array.isArray(posts) || posts.length === 0) throw ...
getLatestPostUrl(posts) ==
  IF posts.t # "array" \/ Len(posts.elems) = 0 THEN Throw("No posts found")
  ELSE Return(First(posts))

\* A getLatestPost that falls back to an empty post when there is none.
getLatestPostDefault(v, posts) ==
  IF posts.t = "array" /\ Len(posts.elems) > 0 THEN Return(First(posts))
  ELSE Return([t |-> "object"])

getLatestPost(v, posts) ==
  IF v = "inline" THEN getLatestPostInline(posts) ELSE getLatestPostUrl(posts)

\* Property access x.name as JavaScript evaluates it: a TypeError on null and
\* undefined, undefined on a primitive or a missing member.
CanRead(x) == x.t \notin {"null", "undefined"}
Member(x, name) ==
  IF x.t = "object" /\ name \in DOMAIN x THEN x[name] ELSE Undefined

\* src/index.js: post.title.rendered || '(no title)'
titleInline(post) ==
  LET ti == Member(post, "title") IN
  IF ~CanRead(post) \/ ~CanRead(ti) THEN Throw("TypeError")
  ELSE LET r == Member(ti, "rendered") IN
       Return(IF Truthy(r) THEN r ELSE Str("(no title)"))

\* part_000: (post.title && post.title.rendered) ? post.title.rendered : '(no title)'
titleUrl(post) ==
  LET ti == Member(post, "title") IN
  IF ~CanRead(post) THEN Throw("TypeError")
  ELSE IF Truthy(ti) /\ Truthy(Member(ti, "rendered"))
    THEN Return(Member(ti, "rendered"))
    ELSE Return(Str("(no title)"))

titleOf(v, post) == IF v = "inline" THEN titleInline(post) ELSE titleUrl(post)

\* The template literal of the prompt: its fixed text around the title.
promptOf(v, title) ==
  << "Photo-realistic daytime image for a blog post titled \"",
     title.v,
     IF v = "inline"
       THEN "\". Show a modern private hire (PHV) saloon (Toyota Prius, Skoda Octavia, Kia Ceed), RHD, on a Manchester UK street. No text, no people, no logos."
       ELSE "\". Show a modern private hire (PHV) saloon (Toyota Prius, Skoda Octavia, Kia Ceed), right-hand drive, on a real Manchester UK street. No text, no people, no logos." >>

\* callOpenAIImage after the generation call returned `reply` (src/index.js):
\* the decoded payload, or the error thrown.
callOpenAIImageInline(reply) ==
  IF ~reply.ok THEN Throw("OpenAI error")
  ELSE IF ~reply.json THEN Throw("SyntaxError")
  ELSE IF reply.value # "field" THEN Throw("TypeError")
  ELSE Return(Str("image"))

\* callOpenAIImage after the generation call returned `reply` (part_000): the
\* URL to download, or the error thrown.
callOpenAIImageUrl(reply) ==
  IF ~reply.ok THEN Throw("OpenAI error")
  ELSE IF ~reply.json THEN Throw("SyntaxError")
  ELSE IF reply.value # "field" THEN Throw("OpenAI response missing image URL")
  ELSE Return(Str("imageUrl"))

\* A callOpenAIImage that answers a failed generation with a stock image.
callOpenAIImageFallback(v, reply) ==
  IF ~reply.ok THEN Return(Str("image"))
  ELSE IF v = "inline" THEN callOpenAIImageInline(reply) ELSE callOpenAIImageUrl(reply)

callOpenAIImage(v, reply) ==
  IF v = "inline" THEN callOpenAIImageInline(reply) ELSE callOpenAIImageUrl(reply)

\* uploadImageToWP after the media call returned `reply` (src/index.js).
uploadImageToWPInline(reply) ==
  IF ~reply.ok THEN Throw("WP media error")
  ELSE IF ~reply.json THEN Throw("SyntaxError")
  ELSE IF ~CanRead(reply.value) THEN Throw("TypeError")
  ELSE Return(Member(reply.value, "id"))

\* uploadImageToWP after the media call returned `reply` (part_000).
uploadImageToWPUrl(reply) ==
  IF ~reply.ok THEN Throw("WP media error")
  ELSE IF ~reply.json THEN Throw("SyntaxError")
  ELSE IF ~CanRead(reply.value) THEN Throw("TypeError")
  ELSE IF ~Truthy(Member(reply.value, "id")) THEN Throw("Media upload missing id")
  ELSE Return(Member(reply.value, "id"))

uploadImageToWP(v, reply) ==
  IF v = "inline" THEN uploadImageToWPInline(reply) ELSE uploadImageToWPUrl(reply)

\* ------------------------------------------------------------------ state
VARIABLES
  variant,      \* the build that runs: "inline" or "url"
  envSecret,    \* process.env.WORKER_SECRET, read once at startup
  pc,           \* per request: where its handler stands
  request,      \* per request: its path, and the secret parameter once read
  frame,        \* per request: runWorker's locals read after an await (postId, mediaId)
  call,         \* per request: the remote call in flight, with its arguments
  res,          \* per request: the response (statusCode, body once ended)
  log,          \* per request: the remote calls issued so far, in order
  rets,         \* per request: the class of each reply received so far
  reply,        \* per request: the last reply its handler consumed
  got,          \* per request: the ids the content API answered with
  overlap,      \* per request: the later runs begun when its update was issued
  nextMediaId,  \* content API: the id of the next media item
  featured      \* content API: featured_media of each post (0: none)

vars ==
  << variant, envSecret, pc, request, frame, call, res, log, rets, reply, got,
     overlap, nextMediaId, featured >>

WORKER_SECRET == WorkerSecret(envSecret)

\* The media items the content API stores.
Media == 1..(nextMediaId - 1)

NoRequest == [path |-> "", secret |-> Null]
NoFrame == [postId |-> Undefined, mediaId |-> Undefined]
NoCall == [op |-> "none"]
NoReply == [ok |-> FALSE, json |-> FALSE]
NoIds == [postId |-> Undefined, mediaId |-> Undefined]
\* http.ServerResponse before the handler touched it: statusCode 200.
NewRes == [statusCode |-> 200, ended |-> FALSE, body |-> Undefined]

Paths == {"/run", "/"}
\* urlObj.searchParams.get('secret'): null when the parameter is missing.
Secrets == {Null, Str("changeme"), Str("s3cret")}

\* The process after startup, with process.env.WORKER_SECRET being env.
Start(env) ==
  /\ variant \in Variants
  /\ envSecret = env
  /\ pc = [r \in Requests |-> "idle"]
  /\ request = [r \in Requests |-> NoRequest]
  /\ frame = [r \in Requests |-> NoFrame]
  /\ call = [r \in Requests |-> NoCall]
  /\ res = [r \in Requests |-> NewRes]
  /\ log = [r \in Requests |-> << >>]
  /\ rets = [r \in Requests |-> << >>]
  /\ reply = [r \in Requests |-> NoReply]
  /\ got = [r \in Requests |-> NoIds]
  /\ overlap = [r \in Requests |-> {}]
  /\ nextMediaId = 1
  /\ featured = [p \in PostIds |-> 0]

\* A deployment that sets WORKER_SECRET.
Init == Start(Str("s3cret"))

\* A deployment that leaves WORKER_SECRET unset: the secret is 'changeme'.
InitDefault == Start(Undefined)

\* res.end(body) with the status code set before it.
End(r, status, body) ==
  /\ res' = [res EXCEPT ![r] = [statusCode |-> status, ended |-> TRUE, body |-> body]]
  /\ pc' = [pc EXCEPT ![r] = "done"]
  /\ call' = [call EXCEPT ![r] = NoCall]
  /\ frame' = [frame EXCEPT ![r] = NoFrame]

\* catch (e) { res.statusCode = 500; res.end(e.message) }
Catch(r, message) == End(r, 500, Str(message))

\* An await of a remote call: the call leaves, the handler yields.
Issue(r, c, at) ==
  /\ call' = [call EXCEPT ![r] = c]
  /\ log' = [log EXCEPT ![r] = Append(@, c.op)]
  /\ pc' = [pc EXCEPT ![r] = at]
  /\ res' = res

\* The handler resumes with the reply of its call in flight.
Resume(r, rp) ==
  /\ reply' = [reply EXCEPT ![r] = rp]
  /\ rets' = [rets EXCEPT ![r] = Append(@, ReplyClass(call[r].op, rp))]

\* A secret test that lets a request without the parameter through.
BadSecretLoose(secret, configured) == Truthy(secret) /\ secret # configured

\* The secret test of the handler: secret !== WORKER_SECRET
BadSecret(secret, configured) == secret # configured

\* The request handler up to its first await: the path and secret tests, then
\* runWorker up to the fetch of getLatestPost.
Request(r, path, secret) ==
  /\ pc[r] = "idle"
  /\ \A q \in 1..(r - 1) : pc[q] # "idle"
  /\ request' = [request EXCEPT ![r] =
                   [path |-> path, secret |-> IF path = "/run" THEN secret ELSE Null]]
  /\ IF path # "/run"
       THEN /\ End(r, 200, Str("AI Image Worker running. Use /run?secret=YOUR_SECRET"))
            /\ log' = log
       ELSE IF BadSecret(secret, WORKER_SECRET)
         THEN /\ End(r, 403, Str("Forbidden: bad secret"))
              /\ log' = log
         ELSE /\ Issue(r, [op |-> "getLatestPost"], "awaitPosts")
              /\ frame' = frame
  /\ UNCHANGED << variant, envSecret, rets, reply, got, overlap, nextMediaId, featured >>

\* runWorker from the reply of the latest-post query to the image API call.
PostsReply(r, rp) ==
  /\ pc[r] = "awaitPosts"
  /\ Resume(r, rp)
  /\ LET posts == wpApiJson(rp)
         post == getLatestPost(variant, posts.value)
         title == titleOf(variant, post.value)
         postId == Member(post.value, "id")
     IN
     IF ~posts.ok THEN Catch(r, posts.error) /\ log' = log /\ got' = got
     ELSE IF ~post.ok THEN Catch(r, post.error) /\ log' = log /\ got' = got
     ELSE IF ~title.ok
       THEN /\ Catch(r, title.error)
            /\ log' = log
            /\ got' = [got EXCEPT ![r].postId = postId]
       ELSE /\ frame' = [frame EXCEPT ![r] = [postId |-> postId, mediaId |-> Undefined]]
            /\ got' = [got EXCEPT ![r].postId = postId]
            /\ Issue(r, [op |-> "callOpenAIImage",
                         prompt |-> promptOf(variant, title.value)], "awaitImage")
  /\ UNCHANGED << variant, envSecret, request, overlap, nextMediaId, featured >>

\* An ImageReply that calls the image API again after a non-success status.
ImageReplyRetry(r, rp) ==
  /\ pc[r] = "awaitImage"
  /\ Resume(r, rp)
  /\ LET image == callOpenAIImage(variant, rp) IN
     IF ~rp.ok THEN Issue(r, call[r], "awaitImage") /\ frame' = frame
     ELSE IF ~image.ok THEN Catch(r, image.error) /\ log' = log
     ELSE IF variant = "inline"
       THEN Issue(r, [op |-> "uploadImageToWP", body |-> image.value], "awaitUpload")
              /\ frame' = frame
       ELSE Issue(r, [op |-> "downloadImage", url |-> image.value], "awaitDownload")
              /\ frame' = frame
  /\ UNCHANGED << variant, envSecret, request, overlap, got, nextMediaId, featured >>

\* callOpenAIImage from the reply of the generation call: src/index.js decodes
\* the payload and runWorker goes on to the upload; part_000 fetches the URL.
ImageReply(r, rp) ==
  /\ pc[r] = "awaitImage"
  /\ Resume(r, rp)
  /\ LET image == callOpenAIImage(variant, rp) IN
     IF ~image.ok THEN Catch(r, image.error) /\ log' = log
     ELSE IF variant = "inline"
       THEN Issue(r, [op |-> "uploadImageToWP", body |-> image.value], "awaitUpload")
              /\ frame' = frame
       ELSE Issue(r, [op |-> "downloadImage", url |-> image.value], "awaitDownload")
              /\ frame' = frame
  /\ UNCHANGED << variant, envSecret, request, overlap, got, nextMediaId, featured >>

\* part_000 only: callOpenAIImage from the reply of the download to its return,
\* then runWorker up to the upload.
DownloadReply(r, rp) ==
  /\ pc[r] = "awaitDownload"
  /\ Resume(r, rp)
  /\ IF ~rp.ok
       THEN Catch(r, "Failed to download image from OpenAI URL") /\ log' = log
       ELSE Issue(r, [op |-> "uploadImageToWP", body |-> Str("image")], "awaitUpload")
              /\ frame' = frame
  /\ UNCHANGED << variant, envSecret, request, overlap, got, nextMediaId, featured >>

\* The content API stores a media item exactly when it answers with its record.
Stored(rp) == rp.ok /\ rp.json /\ Truthy(Member(rp.value, "id"))

\* The requests that arrived after r and whose latest-post fetch has been issued.
BegunAfter(r) == {q \in Requests : q > r /\ Len(log[q]) >= 1}

\* uploadImageToWP from the reply of the media call, then runWorker up to the
\* fetch of setFeaturedImage. The request body is JSON.stringify'd.
UploadReply(r, rp) ==
  /\ pc[r] = "awaitUpload"
  /\ Resume(r, rp)
  /\ nextMediaId' = IF Stored(rp) THEN nextMediaId + 1 ELSE nextMediaId
  /\ got' = [got EXCEPT ![r].mediaId =
               IF rp.ok /\ rp.json THEN Member(rp.value, "id") ELSE Undefined]
  /\ LET mediaId == uploadImageToWP(variant, rp) IN
     IF ~mediaId.ok THEN Catch(r, mediaId.error) /\ log' = log /\ overlap' = overlap
     ELSE /\ frame' = [frame EXCEPT ![r].mediaId = mediaId.value]
          /\ overlap' = [overlap EXCEPT ![r] = BegunAfter(r)]
          /\ Issue(r, [op |-> "setFeaturedImage",
                       postId |-> frame[r].postId,
                       body |-> JSONstringify([featured_media |-> mediaId.value])],
                   "awaitFeatured")
  /\ UNCHANGED << variant, envSecret, request, featured >>

\* The content API updates the post when it answers the update with success
\* and the request body names a featured_media.
Updated(c, rp) ==
  IF rp.ok /\ "featured_media" \in DOMAIN c.body /\ c.postId.t = "number"
    THEN [featured EXCEPT ![c.postId.v] = c.body.featured_media.v]
    ELSE featured

\* A result with its two ids swapped.
RunResultSwapped(f) ==
  [ok |-> [t |-> "boolean", v |-> TRUE], postId |-> f.mediaId, mediaId |-> f.postId]

\* A result that reports the post's id as the media id.
RunResultPostAsMedia(f) ==
  [ok |-> [t |-> "boolean", v |-> TRUE], postId |-> f.postId, mediaId |-> f.postId]

\* The object runWorker returns.
RunResult(f) == [ok |-> [t |-> "boolean", v |-> TRUE], postId |-> f.postId, mediaId |-> f.mediaId]

\* setFeaturedImage from the reply of the update, runWorker's return and the
\* handler's res.end(JSON.stringify(result)).
FeaturedReply(r, rp) ==
  /\ pc[r] = "awaitFeatured"
  /\ Resume(r, rp)
  /\ featured' = Updated(call[r], rp)
  /\ LET updated == wpApiJson(rp) IN
     IF ~updated.ok THEN Catch(r, updated.error)
     ELSE End(r, 200, JSONstringify(RunResult(frame[r])))
  /\ log' = log
  /\ UNCHANGED << variant, envSecret, request, overlap, got, nextMediaId >>

Next ==
  \E r \in Requests :
    \/ \E path \in Paths, secret \in Secrets : Request(r, path, secret)
    \/ \E rp \in PostsReplies : PostsReply(r, rp)
    \/ \E rp \in ImageReplies : ImageReply(r, rp)
    \/ \E rp \in DownloadReplies : DownloadReply(r, rp)
    \/ \E rp \in UploadReplies(nextMediaId) : UploadReply(r, rp)
    \/ \E rp \in FeaturedReplies : FeaturedReply(r, rp)

Spec == Init /\ [][Next]_vars

SpecDefault == InitDefault /\ [][Next]_vars

TypeOK ==
  /\ variant \in Variants
  /\ \A r \in Requests :
       /\ pc[r] \in {"idle", "awaitPosts", "awaitImage", "awaitDownload",
                     "awaitUpload", "awaitFeatured", "done"}
       /\ res[r].statusCode \in {200, 403, 500}
       /\ res[r].ended <=> pc[r] = "done"
  /\ nextMediaId \in 1..(NumRequests + 1)

\* ------------------------------------------------------------------ claims

\* The remote calls of one run, in the order runWorker awaits them.
FullOrder ==
  IF variant = "inline"
    THEN << "getLatestPost", "callOpenAIImage", "uploadImageToWP", "setFeaturedImage" >>
    ELSE << "getLatestPost", "callOpenAIImage", "downloadImage", "uploadImageToWP",
            "setFeaturedImage" >>
FeaturedAt == Len(FullOrder)
UploadAt == FeaturedAt - 1

IsPrefix(s, t) == Len(s) <= Len(t) /\ \A i \in 1..Len(s) : s[i] = t[i]

\* The shared secret as configured: the environment's, 'changeme' when unset.
ConfiguredSecret ==
  IF envSecret.t = "string" /\ envSecret.v # "" THEN envSecret ELSE Str("changeme")

Arrived(r) == pc[r] # "idle"
Ended(r) == pc[r] = "done" /\ res[r].ended
BadRun(r) == Arrived(r) /\ request[r].path = "/run" /\ request[r].secret # ConfiguredSecret
GoodRun(r) == Arrived(r) /\ request[r].path = "/run" /\ request[r].secret = ConfiguredSecret

\* Every call of the run was issued and every reply was a success of the
\* documented shape.
AllSucceeded(r) ==
  /\ log[r] = FullOrder
  /\ Len(rets[r]) = FeaturedAt
  /\ \A i \in 1..FeaturedAt : rets[r][i] = "ok"

\* The run answered 200 with a result naming a post and a media item.
Answered(r) ==
  /\ GoodRun(r) /\ Ended(r) /\ res[r].statusCode = 200
  /\ DOMAIN res[r].body = {"ok", "postId", "mediaId"}

\* C1: a /run request whose secret is missing or differs from the configured
\* secret is answered 403 and no remote call is ever issued for it.
C1_BadSecretForbidden ==
  \A r \in Requests :
    BadRun(r) => /\ Ended(r)
                 /\ res[r].statusCode = 403
                 /\ log[r] = << >>
                 /\ call[r] = NoCall

\* C1 witness: one request without the secret and one with a wrong secret have
\* both been rejected.
C1_Witness ==
  \E r, q \in Requests :
    /\ BadRun(r) /\ request[r].secret = Null /\ res[r].statusCode = 403
    /\ BadRun(q) /\ request[q].secret.t = "string" /\ res[q].statusCode = 403

\* C2: an authorized run whose calls all succeed answers 200 with
\* {ok: true, postId, mediaId}, postId the id of the fetched post and mediaId
\* the id the upload of the same run answered with.
C2_SuccessResult ==
  \A r \in Requests :
    GoodRun(r) /\ AllSucceeded(r) =>
      /\ Ended(r)
      /\ res[r].statusCode = 200
      /\ DOMAIN res[r].body = {"ok", "postId", "mediaId"}
      /\ res[r].body["ok"] = [t |-> "boolean", v |-> TRUE]
      /\ res[r].body["postId"] = got[r].postId
      /\ res[r].body["mediaId"] = got[r].mediaId

\* C2 witness: a run answered 200 for post 42 after all its calls succeeded.
C2_Witness ==
  \E r \in Requests :
    /\ GoodRun(r) /\ AllSucceeded(r) /\ Ended(r)
    /\ got[r].postId = Num(42) /\ got[r].mediaId.t = "number"

\* C3: when the latest-post call answers with an empty result set, the run
\* issues no further call and the request is answered 500.
C3_NoPostsAborts ==
  \A r \in Requests :
    Len(rets[r]) >= 1 /\ rets[r][1] = "empty" =>
      /\ Ended(r)
      /\ res[r].statusCode = 500
      /\ log[r] = << "getLatestPost" >>

\* C3 witness: a run ended 500 'No posts found' on an empty result set.
C3_Witness ==
  \E r \in Requests :
    /\ rets[r] = << "empty" >> /\ Ended(r)
    /\ res[r].body = Str("No posts found")

\* C4: when the image-generation call fails with a non-success status, the run
\* issues neither an upload nor a featured-image call and answers 500.
C4_ImageFailureAborts ==
  \A r \in Requests :
    Len(rets[r]) >= 2 /\ rets[r][2] = "status" =>
      /\ Ended(r)
      /\ res[r].statusCode = 500
      /\ log[r] = << "getLatestPost", "callOpenAIImage" >>

\* C4 witness: a run ended 500 on the image API's error status.
C4_Witness ==
  \E r \in Requests :
    /\ rets[r] = << "ok", "status" >> /\ Ended(r)
    /\ res[r].body = Str("OpenAI error")

\* C5: when the upload succeeds and the featured-image update fails, the
\* request is answered 500, the update is the run's last call, and the
\* uploaded media item stays stored; after a non-success status of the update
\* it is not the post's featured image.
C5_NoRollback ==
  \A r \in Requests :
    /\ Len(rets[r]) = FeaturedAt
    /\ rets[r][UploadAt] = "ok"
    /\ rets[r][FeaturedAt] # "ok"
    => /\ Ended(r)
       /\ res[r].statusCode = 500
       /\ log[r] = FullOrder
       /\ got[r].mediaId.v \in Media
       /\ rets[r][FeaturedAt] = "status" =>
            featured[got[r].postId.v] # got[r].mediaId.v

\* C5 witness: a run ended 500 on the update's error status with its media
\* item stored and unattached.
C5_Witness ==
  \E r \in Requests :
    /\ Len(rets[r]) = FeaturedAt
    /\ rets[r][UploadAt] = "ok" /\ rets[r][FeaturedAt] = "status"
    /\ Ended(r) /\ res[r].statusCode = 500
    /\ got[r].mediaId.v \in Media
    /\ featured[got[r].postId.v] # got[r].mediaId.v

\* The title the prompt is to carry for a post: its rendered title, the
\* placeholder when that is empty or missing.
ExpectedTitle(post) ==
  IF /\ "title" \in DOMAIN post
     /\ post.title.t = "object"
     /\ post.title.rendered.t = "string"
     /\ post.title.rendered.v # ""
    THEN post.title.rendered.v
    ELSE "(no title)"

\* C6: for every fetched post the run continues to the image-generation call,
\* and the prompt of that call carries the post's rendered title, or
\* "(no title)" when the rendered title is empty or missing or the post has no
\* title object.
C6_TitleSubstitution ==
  \A r \in Requests :
    Len(rets[r]) >= 1 /\ rets[r][1] = "ok" =>
      /\ Len(log[r]) >= 2
      /\ pc[r] = "awaitImage" =>
           call[r].prompt[2] = ExpectedTitle(reply[r].value.elems[1])

\* C7: a parsed latest-post body that is an empty sequence or no sequence ends
\* the run with 'No posts found'; a non-empty sequence yields its first element.
C7_NoPostsFound ==
  \A r \in Requests :
    Len(rets[r]) = 1 /\ reply[r].ok /\ reply[r].json =>
      LET body == reply[r].value IN
      IF body.t = "array" /\ Len(body.elems) > 0
        THEN got[r].postId = body.elems[1].id
        ELSE Ended(r) /\ res[r].body = Str("No posts found")

\* C8: an upload reply that is not successful or carries no id fails the run:
\* no featured-image call is issued and the request is answered 500.
C8_UploadNeedsId ==
  \A r \in Requests :
    Len(rets[r]) >= UploadAt /\ rets[r][UploadAt] \in {"status", "noId"} =>
      /\ Ended(r)
      /\ res[r].statusCode = 500
      /\ log[r] = SubSeq(FullOrder, 1, UploadAt)

\* A reply after which the awaited function returned a value: a success status
\* and a body that parses (the missing media id is C8's matter).
Returned == {"ok", "noId"}

Raced(q, r) ==
  /\ q # r /\ r \in overlap[q]
  /\ Answered(q) /\ Answered(r)
  /\ AllSucceeded(q) /\ AllSucceeded(r)
  /\ res[q].body["postId"] = res[r].body["postId"]

\* C10: two overlapping authorized runs that both answer 200 for the same post
\* report different media ids, both stored, and at least one of the two media
\* items is not the post's featured image.
C10_OverlapDuplicates ==
  \A q, r \in Requests :
    Raced(q, r) =>
      /\ res[q].body["mediaId"] # res[r].body["mediaId"]
      /\ res[q].body["mediaId"].v \in Media
      /\ res[r].body["mediaId"].v \in Media
      /\ \E x \in {q, r} :
           featured[res[x].body["postId"].v] # res[x].body["mediaId"].v

\* C10 witness: the second request's fetch was issued before the first
\* request's featured-image update, both answered 200 with the same postId and
\* different mediaIds, and the first run's media item is not featured.
C10_Witness ==
  /\ Raced(1, 2)
  /\ res[1].body["mediaId"] # res[2].body["mediaId"]
  /\ \E x \in {1, 2} :
       featured[res[x].body["postId"].v] # res[x].body["mediaId"].v

====
